---- MODULE Spec2Model ----
(***************************************************************************)
(* Model of concert_service_turtlesim/scripts/turtle_herder2.py: the       *)
(* TurtleHerder class (registry of turtle names, simulated-turtle          *)
(* provisioning, concert-client launching, gateway flip rules, shutdown).  *)
(*                                                                         *)
(* The herder is single threaded.  spawn_turtles and shutdown are modelled *)
(* as a call step followed by one step per external call (simulator spawn  *)
(* service, gateway flip service, os.unlink), because the outcome of every *)
(* external call is chosen by the environment.  pc is the position of the  *)
(* single thread of control.                                               *)
(***************************************************************************)
EXTENDS Integers, Sequences, FiniteSets, TLC

(* ------------------------------ bounds --------------------------------- *)
\* spawn_turtles calls per run
MaxSpawns == 2
\* names requested per run, over all spawn_turtles calls
MaxNames == 3
\* shutdown calls per run
MaxShutdowns == 2
\* external calls that fail or are interrupted per run
MaxFaults == 1
\* messages on the 'shutdown' topic per run
MaxMessages == 1

(* requested turtle names; "a_0" is a name that looks like a postfixed "a" *)
Names == {"a", "a_0"}

(* ------------------------- program constants --------------------------- *)
BasePort == 11

VARIABLES
    turtles,          \* self.turtles: list of turtle name strings
    processes,        \* self._processes: handles of the launched clients
    temporary_files,  \* self._temporary_files: ids of the meta roslauncher files
    pc,               \* position of the thread of control
    req,              \* argument of the running spawn_turtles call
    unique,           \* unique_turtle_names of the running spawn_turtles call
    existing,         \* self.turtles as it was when spawn_turtles was entered
    i,                \* index of the running for loop
    createCalls,      \* spawn service calls of the running batch: name, outcome
    flipCalls,        \* flip service calls of the running _send_flip_rules
    fileKind,         \* every temporary file created so far: id -> kind
    fs,               \* ids of the temporary files that exist on disk
    unlinkCalls,      \* id -> number of os.unlink calls on that file
    stopCalls,        \* handle index -> times handed to shutdown_roslaunch_windows
    spawnCount,       \* spawn_turtles calls so far
    shutdownCount,    \* shutdown calls so far
    faults,           \* external failures so far
    killCalls,        \* names sent to the kill service so far
    is_disabled,      \* self.is_disabled
    constructed,      \* __init__ ran to its end: flip service and terminal are set
    main,             \* position of __main__; "api" when another caller drives
    interrupted,      \* rospy.is_shutdown()
    raised,           \* the exception that ended __main__, "none" so far
    shutdownMsgs      \* messages delivered on the 'shutdown' topic

vars == <<turtles, processes, temporary_files, pc, req, unique, existing, i,
          createCalls, flipCalls, fileKind, fs, unlinkCalls, stopCalls,
          spawnCount, shutdownCount, faults, killCalls, is_disabled,
          constructed, main, interrupted, raised, shutdownMsgs>>

\* what no method of the herder but __init__ and the disable callback writes,
\* and the state of __main__ and of rospy around it
outside == <<killCalls, is_disabled, constructed, main, interrupted, raised,
             shutdownMsgs>>

(* ------------------------------ helpers -------------------------------- *)
\* python: x in list
InList(x, s) == \E k \in 1..Len(s) : s[k] = x

\* sequences over S of length 0..n
SeqUpTo(S, n) == UNION {[1..m -> S] : m \in 0..n}

\* the three ways a rospy service call ends
Outcomes == {"ok", "ServiceException", "ROSInterruptException"}

\* an outcome the fault budget still allows
Allowed(o) == o = "ok" \/ faults < MaxFaults

Charge(o) == IF o = "ok" THEN faults ELSE faults + 1

\* the last element of a non-empty sequence
Last(s) == s[Len(s)]

\* PostfixLoop with an if in the place of the while of line 177
PostfixOnce(turtle_name, name_extension, count, registry) ==
    IF InList(turtle_name \o name_extension, registry)
    THEN turtle_name \o "_" \o ToString(count)
    ELSE turtle_name \o name_extension

(* lines 173-181: the while loop for one turtle_name *)
RECURSIVE PostfixLoop(_, _, _, _)
PostfixLoop(turtle_name, name_extension, count, registry) ==
    IF InList(turtle_name \o name_extension, registry)
    THEN PostfixLoop(turtle_name, "_" \o ToString(count), count + 1, registry)
    ELSE turtle_name \o name_extension

\* establish_unique_names with count starting at 1 (line 176)
UniqueNamesCountingFromOne(names, registry) ==
    [k \in 1..Len(names) |->
        IF InList(names[k], registry)
        THEN PostfixLoop(names[k], "_1", 2, registry)
        ELSE names[k]]

\* establish_unique_names without the while loop of lines 177-179
RequestedNamesAsGiven(names, registry) == names

(* lines 165-181 *)
establish_unique_names(names, registry) ==
    [k \in 1..Len(names) |-> PostfixLoop(names[k], "", 0, registry)]

(* lines 135-137: the name is appended to self.turtles when the call returns *)
SpawnRecords(o) == o = "ok"

\* SpawnLoopGoesOn with a return in both except branches
SpawnLoopStops(o) == o = "ok"

(* lines 138-143: both except branches of the spawn loop end in continue *)
SpawnLoopGoesOn(o) == TRUE

\* FlipLoopGoesOn with the return moved out of the except branches
FlipLoopStops(o) == FALSE

\* FlipLoopGoesOn with a continue in both except branches
FlipLoopIgnoresFailure(o) == TRUE

(* lines 203-210: both except branches of the flip loop end in return *)
FlipLoopGoesOn(o) == o = "ok"

\* UnlinkLoopGoesOn with the OSError left uncaught
UnlinkLoopStops(removed) == removed

(* lines 238-241: the except branch of the unlink loop only logs *)
UnlinkLoopGoesOn(removed) == TRUE

(* line 49: port="114%s" % str(port), as a number *)
PortNumber(port) == IF port < 100 THEN 11400 + port ELSE 114000 + port

\* prepare_launch_configurations without port = port + 1 (line 54)
LaunchConfigurationsOnOnePort(names) ==
    [k \in 1..Len(names) |-> [name |-> names[k],
                              port |-> PortNumber(BasePort)]]

(* lines 45-55, 61: one launch configuration per name, port counting from 11 *)
prepare_launch_configurations(names) ==
    [k \in 1..Len(names) |-> [name |-> names[k],
                              port |-> PortNumber(BasePort + (k - 1))]]

\* FlipRequest without the copy.deepcopy of line 191: both entries are the
\* one rule object, which line 192-193 turn into the publisher rule
FlipRequestAliased(turtle, cancel) ==
    LET pub == [node |-> "", type |-> "PUBLISHER",
                name |-> "/services/turtlesim/" \o turtle \o "/pose"]
    IN [cancel |-> cancel,
        remotes |-> <<[gateway |-> turtle, rule |-> pub],
                      [gateway |-> turtle, rule |-> pub]>>]

(* lines 184-202: the request built for one turtle *)
FlipRequest(turtle, cancel) ==
    LET sub == [node |-> "", type |-> "SUBSCRIBER",
                name |-> "/services/turtlesim/" \o turtle \o "/cmd_vel"]
        pub == [node |-> "", type |-> "PUBLISHER",
                name |-> "/services/turtlesim/" \o turtle \o "/pose"]
    IN [cancel |-> cancel,
        remotes |-> <<[gateway |-> turtle, rule |-> sub],
                      [gateway |-> turtle, rule |-> pub]>>]

(* ------------------------------- Init ---------------------------------- *)
(* lines 93-96, after a construction that ran to the end (lines 98-120) *)
Init ==
    /\ turtles = <<>>
    /\ processes = <<>>
    /\ temporary_files = <<>>
    /\ pc = "idle"
    /\ req = <<>>
    /\ unique = <<>>
    /\ existing = <<>>
    /\ i = 1
    /\ createCalls = <<>>
    /\ flipCalls = <<>>
    /\ fileKind = <<>>
    /\ fs = {}
    /\ unlinkCalls = <<>>
    /\ stopCalls = <<>>
    /\ spawnCount = 0
    /\ shutdownCount = 0
    /\ faults = 0
    /\ killCalls = <<"turtle1">>
    /\ is_disabled = FALSE
    /\ constructed = TRUE
    /\ main = "api"
    /\ interrupted = FALSE
    /\ raised = "none"
    /\ shutdownMsgs = 0

(* ------------------------------ actions -------------------------------- *)
(* lines 157-159: spawn_turtles is entered, names are made unique and the  *)
(* registry is extended; the provisioning loop comes next                  *)
SpawnTurtles ==
    /\ pc = "idle"
    /\ spawnCount < MaxSpawns
    /\ \E names \in SeqUpTo(Names, MaxNames - Len(processes)) :
          /\ req' = names
          /\ unique' = establish_unique_names(names, turtles)
          /\ turtles' = turtles \o establish_unique_names(names, turtles)
          /\ pc' = IF Len(names) = 0 THEN "launch" ELSE "provision"
    /\ existing' = turtles
    /\ i' = 1
    /\ createCalls' = <<>>
    /\ flipCalls' = <<>>
    /\ spawnCount' = spawnCount + 1
    /\ UNCHANGED <<processes, temporary_files, fileKind, fs, unlinkCalls,
                   stopCalls, shutdownCount, faults>>
    /\ UNCHANGED outside

(* lines 129-143: one iteration of the loop of _spawn_simulated_turtles,   *)
(* which spawn_turtles calls with its argument turtles (line 161)          *)
SpawnSimulatedTurtle ==
    /\ pc = "provision"
    /\ \E o \in Outcomes :
          /\ Allowed(o)
          /\ createCalls' = Append(createCalls, [name |-> req[i], outcome |-> o])
          /\ turtles' = IF SpawnRecords(o) THEN Append(turtles, req[i])
                                           ELSE turtles
          /\ faults' = Charge(o)
          /\ i' = IF SpawnLoopGoesOn(o) /\ i < Len(req) THEN i + 1 ELSE 1
          /\ pc' = IF SpawnLoopGoesOn(o) /\ i < Len(req) THEN "provision"
                                                        ELSE "launch"
    /\ UNCHANGED <<processes, temporary_files, req, unique, existing, flipCalls,
                   fileKind, fs, unlinkCalls, stopCalls, spawnCount,
                   shutdownCount>>
    /\ UNCHANGED outside

(* lines 145-155 with prepare_launch_configurations (lines 45-66): the     *)
(* launcher file is written, parsed and unlinked, then one window is       *)
(* spawned per launch configuration                                        *)
LaunchTurtleClients ==
    /\ pc = "launch"
    /\ LET confs == prepare_launch_configurations(unique)
           temp == Len(fileKind) + 1
           n == Len(confs)
       IN /\ \E unlinked \in BOOLEAN :
                /\ unlinked \/ faults < MaxFaults
                /\ fs' = (IF unlinked THEN fs ELSE fs \cup {temp})
                            \cup {temp + k : k \in 1..n}
                /\ faults' = IF unlinked THEN faults ELSE faults + 1
          /\ fileKind' = fileKind \o <<"launcher">> \o [k \in 1..n |-> "meta"]
          /\ unlinkCalls' = unlinkCalls \o <<1>> \o [k \in 1..n |-> 0]
          /\ processes' = processes \o
                [k \in 1..n |-> [name |-> confs[k].name, port |-> confs[k].port,
                                 batch |-> spawnCount]]
          /\ stopCalls' = stopCalls \o [k \in 1..n |-> 0]
          /\ temporary_files' = temporary_files \o [k \in 1..n |-> temp + k]
          /\ pc' = IF n = 0 THEN "idle" ELSE "flip"
    /\ i' = 1
    /\ UNCHANGED <<turtles, req, unique, existing, createCalls, flipCalls,
                   spawnCount, shutdownCount>>
    /\ UNCHANGED outside

(* lines 184-210: one iteration of the loop of _send_flip_rules, called    *)
(* with unique_turtle_names and cancel=False (line 163)                    *)
SendFlipRules ==
    /\ pc = "flip"
    /\ \E o \in Outcomes :
          /\ Allowed(o)
          /\ flipCalls' = Append(flipCalls,
                 [request |-> FlipRequest(unique[i], FALSE), outcome |-> o])
          /\ faults' = Charge(o)
          /\ i' = IF FlipLoopGoesOn(o) /\ i < Len(unique) THEN i + 1 ELSE 1
          /\ pc' = IF FlipLoopGoesOn(o) /\ i < Len(unique) THEN "flip"
                                                         ELSE "idle"
    /\ UNCHANGED <<turtles, processes, temporary_files, req, unique, existing,
                   createCalls, fileKind, fs, unlinkCalls, stopCalls,
                   spawnCount, shutdownCount>>
    /\ UNCHANGED outside

\* Shutdown with the loop of lines 226-232 no longer commented out: every
\* name of self.turtles is sent to the kill service first
ShutdownKillingTurtles ==
    /\ pc = "idle"
    /\ shutdownCount < MaxShutdowns
    /\ killCalls' = killCalls \o turtles
    /\ stopCalls' = [k \in 1..Len(processes) |-> stopCalls[k] + 1]
    /\ shutdownCount' = shutdownCount + 1
    /\ i' = 1
    /\ pc' = IF Len(temporary_files) = 0 THEN "idle" ELSE "unlink"
    /\ UNCHANGED <<turtles, processes, temporary_files, req, unique, existing,
                   createCalls, flipCalls, fileKind, fs, unlinkCalls,
                   spawnCount, faults, is_disabled, constructed, main,
                   interrupted, raised, shutdownMsgs>>

(* lines 234-235: shutdown is entered and every tracked process is handed  *)
(* to shutdown_roslaunch_windows; the unlink loop comes next               *)
Shutdown ==
    /\ pc = "idle"
    /\ shutdownCount < MaxShutdowns
    /\ stopCalls' = [k \in 1..Len(processes) |-> stopCalls[k] + 1]
    /\ shutdownCount' = shutdownCount + 1
    /\ i' = 1
    /\ pc' = IF Len(temporary_files) = 0 THEN "idle" ELSE "unlink"
    /\ UNCHANGED <<turtles, processes, temporary_files, req, unique, existing,
                   createCalls, flipCalls, fileKind, fs, unlinkCalls,
                   spawnCount, faults>>
    /\ UNCHANGED outside

(* lines 236-241: one iteration of the unlink loop of shutdown; os.unlink  *)
(* of a file that is gone raises OSError, of a file that exists it may     *)
(* raise OSError as well                                                   *)
UnlinkTemporaryFile ==
    /\ pc = "unlink"
    /\ LET f == temporary_files[i]
       IN /\ unlinkCalls' = [unlinkCalls EXCEPT ![f] = @ + 1]
          /\ \E removed \in BOOLEAN :
                /\ removed => f \in fs
                /\ (~removed /\ f \in fs) => faults < MaxFaults
                /\ fs' = IF removed THEN fs \ {f} ELSE fs
                /\ faults' = IF ~removed /\ f \in fs THEN faults + 1 ELSE faults
                /\ i' = IF UnlinkLoopGoesOn(removed) /\ i < Len(temporary_files)
                         THEN i + 1 ELSE 1
                /\ pc' = IF UnlinkLoopGoesOn(removed) /\ i < Len(temporary_files)
                          THEN "unlink" ELSE "idle"
    /\ UNCHANGED <<turtles, processes, temporary_files, req, unique, existing,
                   createCalls, flipCalls, fileKind, stopCalls, spawnCount,
                   shutdownCount>>
    /\ UNCHANGED outside

Next ==
    \/ SpawnTurtles
    \/ SpawnSimulatedTurtle
    \/ LaunchTurtleClients
    \/ SendFlipRules
    \/ Shutdown
    \/ UnlinkTemporaryFile

Spec == Init /\ [][Next]_vars

(* ------------------------ the script: __main__ ------------------------- *)
(* lines 254-258: one herder is constructed, spawn_turtles is called once, *)
(* the loop polls until rospy is shut down or the herder is disabled, and  *)
(* shutdown is called.  The methods are the actions above, taken at the    *)
(* position of __main__ that calls them.  The rospy callbacks run on       *)
(* threads of their own and may come between any two steps.                *)

\* the frame of a step that leaves every field and record of the herder alone
herder == <<turtles, processes, temporary_files, pc, req, unique, existing, i,
            createCalls, flipCalls, fileKind, fs, unlinkCalls, stopCalls,
            spawnCount, shutdownCount>>

(* lines 93-96, line 249: nothing is constructed yet *)
MainInit ==
    /\ turtles = <<>>
    /\ processes = <<>>
    /\ temporary_files = <<>>
    /\ pc = "idle"
    /\ req = <<>>
    /\ unique = <<>>
    /\ existing = <<>>
    /\ i = 1
    /\ createCalls = <<>>
    /\ flipCalls = <<>>
    /\ fileKind = <<>>
    /\ fs = {}
    /\ unlinkCalls = <<>>
    /\ stopCalls = <<>>
    /\ spawnCount = 0
    /\ shutdownCount = 0
    /\ faults = 0
    /\ killCalls = <<>>
    /\ is_disabled = FALSE
    /\ constructed = FALSE
    /\ main = "construct"
    /\ interrupted = FALSE
    /\ raised = "none"
    /\ shutdownMsgs = 0

\* __main__ has ended, by returning or by an exception nothing catches
Ended == main \in {"exited", "crashed"}

(* the process is told to shut down (SIGINT, rosnode kill): from now on    *)
(* rospy.is_shutdown() is true and rospy calls may raise                   *)
(* ROSInterruptException                                                   *)
Interrupt ==
    /\ ~Ended
    /\ ~interrupted
    /\ interrupted' = TRUE
    /\ UNCHANGED <<herder, faults, killCalls, is_disabled, constructed, main,
                   raised, shutdownMsgs>>

(* lines 92-120, called at line 254: the default turtle is killed; a       *)
(* ServiceException is logged, a ROSInterruptException returns from        *)
(* __init__ at line 109, before the subscriber, the flip service and the   *)
(* terminal are set                                                        *)
Construct ==
    /\ main = "construct"
    /\ \E o \in Outcomes :
          /\ Allowed(o)
          /\ o = "ROSInterruptException" => interrupted
          /\ constructed' = (o # "ROSInterruptException")
          /\ faults' = Charge(o)
    /\ killCalls' = Append(killCalls, "turtle1")
    /\ main' = "spawn"
    /\ UNCHANGED <<herder, is_disabled, interrupted, raised, shutdownMsgs>>

(* lines 212-213: the service manager disables the herder *)
DisableCallback ==
    /\ main # "construct"
    /\ ~Ended
    /\ ~is_disabled
    /\ is_disabled' = TRUE
    /\ UNCHANGED <<herder, faults, killCalls, constructed, main, interrupted,
                   raised, shutdownMsgs>>

(* line 110: the subscriber calls self.shutdown with the message, and      *)
(* shutdown (line 215) takes no argument but self: the call raises         *)
(* TypeError on the callback thread before the first line of the body      *)
ShutdownMessage ==
    /\ constructed
    /\ ~Ended
    /\ shutdownMsgs < MaxMessages
    /\ shutdownMsgs' = shutdownMsgs + 1
    /\ UNCHANGED <<herder, faults, killCalls, is_disabled, constructed, main,
                   interrupted, raised>>

(* line 255 *)
MainSpawnTurtles ==
    /\ main = "spawn"
    /\ spawnCount = 0
    /\ SpawnTurtles

(* line 161; the spawn service client is set at line 101, before __init__  *)
(* can return early                                                        *)
MainSpawnSimulatedTurtle ==
    /\ main = "spawn"
    /\ SpawnSimulatedTurtle
    /\ Last(createCalls').outcome = "ROSInterruptException" => interrupted

(* line 162, with self._terminal set or no launch configuration to spawn *)
MainLaunchTurtleClients ==
    /\ main = "spawn"
    /\ constructed \/ Len(unique) = 0
    /\ LaunchTurtleClients

(* line 162 on a herder whose __init__ returned at line 109: the launcher  *)
(* file is written, parsed and unlinked (line 147), then line 152 reads    *)
(* self._terminal, which was never set                                     *)
LaunchWithoutTerminal ==
    /\ main = "spawn"
    /\ pc = "launch"
    /\ ~constructed
    /\ Len(unique) > 0
    /\ \E unlinked \in BOOLEAN :
          /\ unlinked \/ faults < MaxFaults
          /\ fs' = IF unlinked THEN fs ELSE fs \cup {Len(fileKind) + 1}
          /\ faults' = IF unlinked THEN faults ELSE faults + 1
    /\ fileKind' = Append(fileKind, "launcher")
    /\ unlinkCalls' = Append(unlinkCalls, 1)
    /\ main' = "crashed"
    /\ raised' = "AttributeError"
    /\ UNCHANGED <<turtles, processes, temporary_files, pc, req, unique,
                   existing, i, createCalls, flipCalls, stopCalls, spawnCount,
                   shutdownCount, killCalls, is_disabled, constructed,
                   interrupted, shutdownMsgs>>

(* line 163 *)
MainSendFlipRules ==
    /\ main = "spawn"
    /\ constructed
    /\ SendFlipRules
    /\ Last(flipCalls').outcome = "ROSInterruptException" => interrupted

(* line 256: the test of the while loop, first when spawn_turtles has      *)
(* returned and then after every sleep                                     *)
PollLoop ==
    /\ \/ main = "loop"
       \/ main = "spawn" /\ spawnCount = 1 /\ pc = "idle"
    /\ main' = IF interrupted \/ is_disabled THEN "shutdown" ELSE "sleep"
    /\ UNCHANGED <<herder, faults, killCalls, is_disabled, constructed,
                   interrupted, raised, shutdownMsgs>>

(* line 257: rospy.sleep returns, or raises ROSInterruptException when     *)
(* rospy is shut down while it sleeps; nothing in __main__ catches it      *)
Sleep ==
    /\ main = "sleep"
    /\ \/ main' = "loop" /\ raised' = raised
       \/ interrupted /\ main' = "crashed" /\ raised' = "ROSInterruptException"
    /\ UNCHANGED <<herder, faults, killCalls, is_disabled, constructed,
                   interrupted, shutdownMsgs>>

(* line 258 *)
MainShutdown ==
    /\ main = "shutdown"
    /\ shutdownCount = 0
    /\ constructed
    /\ Shutdown

(* line 258 on a herder whose __init__ returned at line 109: line 234      *)
(* reads self._terminal, which was never set                               *)
ShutdownWithoutTerminal ==
    /\ main = "shutdown"
    /\ pc = "idle"
    /\ shutdownCount = 0
    /\ ~constructed
    /\ shutdownCount' = shutdownCount + 1
    /\ main' = "crashed"
    /\ raised' = "AttributeError"
    /\ UNCHANGED <<turtles, processes, temporary_files, pc, req, unique,
                   existing, i, createCalls, flipCalls, fileKind, fs,
                   unlinkCalls, stopCalls, spawnCount, faults, killCalls,
                   is_disabled, constructed, interrupted, shutdownMsgs>>

(* lines 236-241, within the call of line 258 *)
MainUnlinkTemporaryFile ==
    /\ main = "shutdown"
    /\ UnlinkTemporaryFile

(* after line 258: the script ends *)
Exit ==
    /\ main = "shutdown"
    /\ shutdownCount = 1
    /\ pc = "idle"
    /\ main' = "exited"
    /\ UNCHANGED <<herder, faults, killCalls, is_disabled, constructed,
                   interrupted, raised, shutdownMsgs>>

MainNext ==
    \/ Interrupt
    \/ Construct
    \/ DisableCallback
    \/ ShutdownMessage
    \/ MainSpawnTurtles
    \/ MainSpawnSimulatedTurtle
    \/ MainLaunchTurtleClients
    \/ LaunchWithoutTerminal
    \/ MainSendFlipRules
    \/ PollLoop
    \/ Sleep
    \/ MainShutdown
    \/ ShutdownWithoutTerminal
    \/ MainUnlinkTemporaryFile
    \/ Exit

MainSpec == MainInit /\ [][MainNext]_vars

(* ------------------------- claims: vocabulary -------------------------- *)
\* no element occurs twice in s
NoDuplicates(s) == \A k, l \in 1..Len(s) : k # l => s[k] # s[l]

\* the provisioning loop of the latest spawn_turtles call has ended
ProvisioningDone == spawnCount > 0 /\ pc # "provision"

\* the latest spawn_turtles call has launched its clients
LaunchDone == spawnCount > 0 /\ pc \notin {"provision", "launch"}

\* the latest spawn_turtles call has returned
SpawnReturned == spawnCount > 0 /\ pc \notin {"provision", "launch", "flip"}

\* the names the spawn service accepted in the latest batch, in call order
OkNames ==
    LET ok == SelectSeq(createCalls, LAMBDA c : c.outcome = "ok")
    IN [k \in 1..Len(ok) |-> ok[k].name]

\* the handles the latest spawn_turtles call appended to self._processes
BatchProcesses == SelectSeq(processes, LAMBDA h : h.batch = spawnCount)

\* every flip request so far carries its two rules for the turtle of its turn
RequestsFollowNames ==
    /\ Len(flipCalls) <= Len(unique)
    /\ \A k \in 1..Len(flipCalls) :
          /\ Len(flipCalls[k].request.remotes) = 2
          /\ \A r \in 1..2 : flipCalls[k].request.remotes[r].gateway = unique[k]

(* ------------------------------- claims -------------------------------- *)

(* C1: after any sequence of spawn_turtles calls, whatever the spawn       *)
(* service answered, self.turtles holds no name more than once.            *)
(* Refuted: line 159 extends the registry with the unique names and line   *)
(* 137 appends the requested name again when the spawn service succeeds.   *)
C1_RegistryHasNoDuplicates == pc = "idle" => NoDuplicates(turtles)

(* C2: the names produced by one _establish_unique_names call are pairwise *)
(* distinct, and ["a","a","a"] against an empty registry gives             *)
(* ["a","a_0","a_1"].  Refuted: line 177 looks only at self.turtles, never *)
(* at unique_turtle_names.                                                 *)
C2_UniqueNamesPairwiseDistinct ==
    /\ NoDuplicates(unique)
    /\ (req = <<"a", "a", "a">> /\ existing = <<>>)
          => unique = <<"a", "a_0", "a_1">>

(* C3: _establish_unique_names returns as many names as it was given, the  *)
(* k-th being the k-th requested name or that name with a _N postfix, and  *)
(* none of them is in the registry it was called with.                     *)
C3_UniqueNamesAvoidRegistry ==
    /\ Len(unique) = Len(req)
    /\ \A k \in 1..Len(unique) :
          /\ \/ unique[k] = req[k]
             \/ \E n \in 0..Len(existing) :
                   unique[k] = req[k] \o "_" \o ToString(n)
          /\ ~InList(unique[k], existing)

\* a requested name went through the postfix loop twice
C3_Witness ==
    \E k \in 1..Len(unique) :
        /\ InList(req[k], existing)
        /\ InList(req[k] \o "_0", existing)
        /\ unique[k] = req[k] \o "_1"

(* C4: every port of a later launch batch is greater than every port of an *)
(* earlier batch.  Refuted: prepare_launch_configurations starts again at  *)
(* port = 11 on every call (line 46).                                      *)
C4_PortsNeverReused ==
    \A p, q \in 1..Len(processes) :
        processes[p].batch < processes[q].batch
            => processes[p].port < processes[q].port

(* C5 as claimed: _send_flip_rules for a non-empty list of names sends     *)
(* exactly one request, which carries two rules per name.                  *)
C5_SingleBatchedRequest ==
    (SpawnReturned /\ Len(unique) > 0)
        => /\ Len(flipCalls) = 1
           /\ Len(flipCalls[1].request.remotes) = 2 * Len(unique)

(* C5 as amended: _send_flip_rules sends one request per name, in the      *)
(* order of the names, each with cancel as given and exactly the two rules *)
(* of that name; when no request fails it has sent len(names) requests,    *)
(* 2*len(names) rules in all.                                              *)
C5_OneRequestPerName ==
    /\ RequestsFollowNames
    /\ \A k \in 1..Len(flipCalls) : flipCalls[k].request.cancel = FALSE
    /\ (SpawnReturned /\ \A k \in 1..Len(flipCalls) : flipCalls[k].outcome = "ok")
          => Len(flipCalls) = Len(unique)

\* two names, two requests, all accepted
C5_Witness ==
    /\ SpawnReturned
    /\ Len(unique) = 2
    /\ Len(flipCalls) = 2
    /\ \A k \in 1..2 : flipCalls[k].outcome = "ok"

(* C6 as claimed: when a flip call fails with a communication failure, the *)
(* rules of either every name of the batch or of none have been submitted. *)
C6_AllOrNothing ==
    (flipCalls # <<>> /\ Last(flipCalls).outcome = "ServiceException")
        => Len(flipCalls) = Len(unique)

(* C6 as amended: when a flip call fails with a communication failure,     *)
(* _send_flip_rules returns without raising and sends nothing more: the    *)
(* names whose rules were submitted are a prefix of the batch that ends    *)
(* with the name whose request failed, and every request before it was     *)
(* accepted.                                                               *)
C6_FailureEndsTheCall ==
    /\ RequestsFollowNames
    /\ \A k \in 1..(Len(flipCalls) - 1) : flipCalls[k].outcome = "ok"
    /\ (flipCalls # <<>> /\ Last(flipCalls).outcome = "ServiceException")
          => pc # "flip"

\* the first of two requests failed and the second name was never submitted
C6_Witness ==
    /\ pc = "idle"
    /\ Len(unique) = 2
    /\ Len(flipCalls) = 1
    /\ flipCalls[1].outcome = "ServiceException"

(* C7: a second shutdown acts on no process handle and on no tracked file  *)
(* that the first one acted on.  Refuted: shutdown never empties           *)
(* self._processes nor self._temporary_files (lines 234-241).              *)
C7_SecondShutdownActsOnNothing ==
    /\ \A h \in 1..Len(stopCalls) : stopCalls[h] <= 1
    /\ \A f \in 1..Len(fileKind) : fileKind[f] = "meta" => unlinkCalls[f] <= 1

\* a step with which a shutdown call returns
ShutdownReturns ==
    \/ pc = "unlink" /\ pc' = "idle"
    \/ pc = "idle" /\ shutdownCount' # shutdownCount /\ pc' = "idle"

(* C8: when shutdown returns, no temporary file made by an earlier launch  *)
(* is left on disk, the launcher file included, also when a deletion       *)
(* failed earlier.  Refuted: a launcher file whose unlink fails at line 63 *)
(* is tracked nowhere, and shutdown tries each meta file once per call.    *)
C8_NoArtifactLeftAfterShutdown == [][ShutdownReturns => fs' = {}]_vars

(* C9: in one batch the spawn service is called exactly once per requested *)
(* name, in order, whatever the earlier calls answered; exactly the names  *)
(* whose call succeeded are appended to the registry by the provisioning   *)
(* loop; and every name of the batch gets a client process and, as long as *)
(* no flip call fails, a flip request.                                     *)
C9_ProvisioningFailureIsIsolated ==
    /\ Len(createCalls) <= Len(req)
    /\ \A k \in 1..Len(createCalls) : createCalls[k].name = req[k]
    /\ ProvisioningDone =>
          /\ Len(createCalls) = Len(req)
          /\ turtles = existing \o unique \o OkNames
    /\ LaunchDone =>
          /\ Len(BatchProcesses) = Len(unique)
          /\ \A k \in 1..Len(unique) : BatchProcesses[k].name = unique[k]
    /\ (SpawnReturned /\ \A k \in 1..Len(flipCalls) : flipCalls[k].outcome = "ok")
          => /\ Len(flipCalls) = Len(unique)
             /\ \A k \in 1..Len(unique) :
                   flipCalls[k].request.remotes[1].gateway = unique[k]

\* the spawn service failed for the first name and succeeded for the
\* second, and both names have their client and their flip request
C9_Witness ==
    /\ SpawnReturned
    /\ Len(req) = 2
    /\ req[1] # req[2]
    /\ Len(createCalls) = 2
    /\ createCalls[1].outcome = "ServiceException"
    /\ createCalls[2].outcome = "ok"
    /\ OkNames = <<req[2]>>
    /\ Len(BatchProcesses) = 2
    /\ Len(flipCalls) = 2

(* C10: after a spawn service call that was interrupted, no spawn service  *)
(* call is made for a later name of the batch.  Refuted: the               *)
(* ROSInterruptException branch ends in continue (line 143).               *)
C10_InterruptAbortsTheBatch ==
    \A k \in 1..Len(createCalls) :
        createCalls[k].outcome = "ROSInterruptException" => k = Len(createCalls)

(* C11: the spawn service is called with the unique names, so never with a *)
(* name that was in the registry when spawn_turtles was entered.  Refuted: *)
(* line 161 passes the argument turtles, not unique_turtle_names.          *)
C11_CreateCallsUseUniqueNames ==
    \A k \in 1..Len(createCalls) :
        /\ createCalls[k].name = unique[k]
        /\ ~InList(createCalls[k].name, existing)

\* a step of shutdown: its entry or one iteration of its unlink loop
ShutdownStep == shutdownCount' # shutdownCount \/ pc = "unlink"

C14_SmallestFreePostfix ==
    /\ \A k \in 1..Len(unique) :
          IF InList(req[k], existing)
          THEN \E n \in 0..Len(existing) :
                  /\ unique[k] = req[k] \o "_" \o ToString(n)
                  /\ ~InList(unique[k], existing)
                  /\ \A m \in 0..(n - 1) :
                        InList(req[k] \o "_" \o ToString(m), existing)
          ELSE unique[k] = req[k]
    /\ (req = <<"a">> /\ InList("a", existing) /\ InList("a_0", existing)
            /\ ~InList("a_1", existing))
          => unique = <<"a_1">>

\* the example of the claim: "a" and "a_0" are taken, "a" is requested
C14_Witness ==
    /\ InList("a", existing)
    /\ InList("a_0", existing)
    /\ req = <<"a">>
    /\ unique = <<"a_1">>

(* C15: every flip request holds exactly two rules for the one turtle it   *)
(* names: a subscriber rule on its cmd_vel topic and a publisher rule on   *)
(* its pose topic, under the one cancel flag of the request.               *)
C15_RulesComeInPairs ==
    \A k \in 1..Len(flipCalls) :
        LET r == flipCalls[k].request
        IN /\ Len(r.remotes) = 2
           /\ r.cancel = FALSE
           /\ r.remotes[1] = [gateway |-> unique[k],
                 rule |-> [node |-> "", type |-> "SUBSCRIBER",
                           name |-> "/services/turtlesim/" \o unique[k] \o "/cmd_vel"]]
           /\ r.remotes[2] = [gateway |-> unique[k],
                 rule |-> [node |-> "", type |-> "PUBLISHER",
                           name |-> "/services/turtlesim/" \o unique[k] \o "/pose"]]

\* a request went out for a postfixed name
C15_Witness ==
    /\ Len(flipCalls) = 2
    /\ unique[2] # req[2]
    /\ flipCalls[2].request.remotes[1].rule.name
          = "/services/turtlesim/" \o req[2] \o "_0/cmd_vel"

(* C16: within one launch batch the k-th name gets the port of the first   *)
(* plus k - 1, the first being 114 followed by 11, so the ports of a batch *)
(* are pairwise distinct and increase in the order of the names.           *)
C16_PortsCountUpWithinBatch ==
    /\ LaunchDone =>
          \A k \in 1..Len(BatchProcesses) :
              BatchProcesses[k].port = PortNumber(BasePort) + (k - 1)
    /\ \A p, q \in 1..Len(processes) :
          (p < q /\ processes[p].batch = processes[q].batch)
              => processes[q].port = processes[p].port + (q - p)

\* a batch of three
C16_Witness ==
    /\ LaunchDone
    /\ Len(BatchProcesses) = 3
    /\ BatchProcesses[3].port > BatchProcesses[2].port
    /\ BatchProcesses[2].port > BatchProcesses[1].port

(* C17: an unlink that fails does not end the loop of shutdown: the loop   *)
(* goes on to the next tracked file whatever the outcome, and when shutdown *)
(* returns every tracked file has had an unlink call, one per shutdown     *)
(* call at most.                                                           *)
C17_UnlinkFailureDoesNotAbort ==
    [][/\ (pc = "unlink" /\ i < Len(temporary_files))
             => (pc' = "unlink" /\ i' = i + 1)
       /\ (pc = "unlink" /\ pc' = "idle")
             => \A k \in 1..Len(temporary_files) :
                   /\ unlinkCalls'[temporary_files[k]] >= 1
                   /\ unlinkCalls'[temporary_files[k]] <= shutdownCount]_vars

\* the first shutdown returned; the unlink of the first tracked file failed
\* and the second tracked file was still unlinked
C17_Witness ==
    /\ pc = "idle"
    /\ shutdownCount = 1
    /\ Len(temporary_files) >= 2
    /\ temporary_files[1] \in fs
    /\ temporary_files[2] \notin fs
    /\ unlinkCalls[temporary_files[1]] = 1
    /\ unlinkCalls[temporary_files[2]] = 1

(* C20: a name under which an earlier spawn_turtles call launched a client *)
(* (and sent its flip request) is never the name of a client or of a flip  *)
(* request of a later spawn_turtles call.                                  *)
C20_NamesNotReusedAcrossCalls ==
    /\ \A p, q \in 1..Len(processes) :
          processes[p].batch # processes[q].batch
              => processes[p].name # processes[q].name
    /\ \A k \in 1..Len(flipCalls) :
          /\ LaunchDone
          /\ flipCalls[k].request.remotes[1].gateway = BatchProcesses[k].name

\* "a" was requested again after a call that had launched "a"
C20_Witness ==
    /\ SpawnReturned
    /\ Len(processes) = 2
    /\ processes[1].batch # processes[2].batch
    /\ processes[1].name = "a"
    /\ req = <<"a">>
    /\ processes[2].name = "a_0"
    /\ Len(flipCalls) = 1

(* C12: shutdown runs exactly once in the life of the process, whichever   *)
(* trigger occurs: once a message has come on the 'shutdown' topic it has  *)
(* run, it never runs twice, and when __main__ has ended it has run.       *)
(* Refuted: the subscriber of line 110 calls shutdown(msg), which raises   *)
(* TypeError, so the message runs nothing; and __main__ can end without    *)
(* reaching line 258.                                                      *)
C12_ShutdownRunsExactlyOnce ==
    /\ shutdownCount <= 1
    /\ shutdownMsgs > 0 => shutdownCount = 1
    /\ Ended => shutdownCount = 1

(* C18: once the herder was constructed and polling, a disable or an       *)
(* interrupt ends in shutdown: when __main__ has ended, shutdown was       *)
(* called and every tracked process was handed to the launcher to stop.    *)
(* Refuted: an interrupt that arrives while rospy.sleep runs raises        *)
(* ROSInterruptException at line 257, which ends __main__ before line 258. *)
C18_RunningEndsInShutdown ==
    (constructed /\ Ended)
        => /\ shutdownCount = 1
           /\ \A h \in 1..Len(stopCalls) : stopCalls[h] >= 1

(* C19: spawn_turtles and shutdown never use the flip service or the       *)
(* terminal of a herder whose __init__ returned before setting them.       *)
(* Refuted: __main__ calls both whatever __init__ did (lines 254-258).     *)
C19_UnsetHandlesNeverUsed == raised # "AttributeError"

====
